---- MODULE Spec2Model ----
(***************************************************************************)
(* Model of src/features/modals/NodeModal/index.tsx: the path-addressed    *)
(* read/replace helpers (getValueByPath, setValueByPath), the value        *)
(* coercion (parseJsonValue) and the edit session of the NodeModal         *)
(* component (draft state, the seeding effect, handleSave, the render      *)
(* guards that decide which buttons exist).                                *)
(*                                                                         *)
(* JavaScript values are tagged records.  Text is a tuple of one-character *)
(* strings, so that trimming, lower-casing and digit parsing are computed  *)
(* character by character as the runtime does.                             *)
(***************************************************************************)
EXTENDS Integers, Sequences, FiniteSets, TLC

VARIABLES
  nodeData,    \* useGraph(state => state.selectedNode)
  opened,      \* the `opened` prop
  isEditing,   \* React state
  editValue,   \* React state
  editKey,     \* React state
  editType,    \* React state
  jsonStr,     \* what useJson's getJson() returns
  event,       \* the last handler that ran, with what it sent out: the toast
               \* shown and the payloads handed to useFile's setContents
  call         \* the last direct application of a helper (contract specifications)

vars == <<nodeData, opened, isEditing, editValue, editKey, editType,
          jsonStr, event, call>>

uiVars == <<nodeData, opened, isEditing, editValue, editKey, editType,
            jsonStr, event>>

----------------------------------------------------------------------------
(* JavaScript values *)

Undefined == [k |-> "undefined"]
Null == [k |-> "null"]
Bool(b) == [k |-> "boolean", v |-> b]
\* a finite number (the model's numeric literals are integers)
Num(n) == [k |-> "number", cls |-> "finite", v |-> n]
NaN == [k |-> "number", cls |-> "NaN", v |-> 0]
\* +Infinity (sign 1) or -Infinity (sign -1)
Infinite(sign) == [k |-> "number", cls |-> "Infinity", v |-> sign]
Str(s) == [k |-> "string", v |-> s]
\* an object: its own enumerable string keys in property order, and their values
Obj(keys, vals) == [k |-> "object", keys |-> keys, vals |-> vals]
Arr(elems) == [k |-> "array", elems |-> elems]
\* a thrown exception travelling up the call stack
Thrown(name, message) == [k |-> "throw", name |-> name, message |-> message]

EmptyObject == Obj(<<>>, <<>>)

IsThrown(x) == x.k = "throw"

----------------------------------------------------------------------------
(* Text: tuples of one-character strings *)

Digits == <<"0", "1", "2", "3", "4", "5", "6", "7", "8", "9">>
UpperLetters == <<"A", "B", "C", "D", "E", "F", "G", "H", "I", "J", "K", "L", "M",
                  "N", "O", "P", "Q", "R", "S", "T", "U", "V", "W", "X", "Y", "Z">>
LowerLetters == <<"a", "b", "c", "d", "e", "f", "g", "h", "i", "j", "k", "l", "m",
                  "n", "o", "p", "q", "r", "s", "t", "u", "v", "w", "x", "y", "z">>

IsDigit(c) == \E i \in 1..Len(Digits) : Digits[i] = c
DigitVal(c) == (CHOOSE i \in 1..Len(Digits) : Digits[i] = c) - 1
IsWhiteSpace(c) == c \in {" ", "\t", "\n", "\r"}

\* String.prototype.toLowerCase, one character
LowerChar(c) ==
  IF \E i \in 1..Len(UpperLetters) : UpperLetters[i] = c
  THEN LowerLetters[CHOOSE i \in 1..Len(UpperLetters) : UpperLetters[i] = c]
  ELSE c

\* String.prototype.toLowerCase
ToLowerCase(s) == [i \in 1..Len(s) |-> LowerChar(s[i])]

RECURSIVE TrimStart(_)
TrimStart(s) ==
  IF Len(s) > 0 /\ IsWhiteSpace(s[1]) THEN TrimStart(Tail(s)) ELSE s

RECURSIVE TrimEnd(_)
TrimEnd(s) ==
  IF Len(s) > 0 /\ IsWhiteSpace(s[Len(s)]) THEN TrimEnd(SubSeq(s, 1, Len(s) - 1)) ELSE s

\* the value of a run of decimal digits
RECURSIVE DigitsToNat(_)
DigitsToNat(s) ==
  IF Len(s) = 0 THEN 0
  ELSE 10 * DigitsToNat(SubSeq(s, 1, Len(s) - 1)) + DigitVal(s[Len(s)])

AllDigits(s) == Len(s) > 0 /\ \A i \in 1..Len(s) : IsDigit(s[i])

\* the decimal digits of a natural number
RECURSIVE NatToText(_)
NatToText(n) ==
  IF n < 10 THEN <<Digits[n + 1]>>
  ELSE NatToText(n \div 10) \o <<Digits[(n % 10) + 1]>>

InfinityText == <<"I", "n", "f", "i", "n", "i", "t", "y">>
NaNText == <<"N", "a", "N">>

\* Number.prototype.toString (radix 10), which is also ToString of a number
\* used as a property key
NumberToString(x) ==
  CASE x.cls = "NaN" -> NaNText
    [] x.cls = "Infinity" -> IF x.v < 0 THEN <<"-">> \o InfinityText ELSE InfinityText
    [] OTHER -> IF x.v < 0 THEN <<"-">> \o NatToText(0 - x.v) ELSE NatToText(x.v)

\* Number(text): StringToNumber.  White space is trimmed, the empty text is 0,
\* [+-]Infinity is an infinity, a signed run of decimal digits is its value,
\* and everything else is NaN.  Fractions, exponents and 0x/0o/0b literals are
\* outside the texts the specifications draw.
StringToNumber(s) ==
  LET t == TrimEnd(TrimStart(s))
      signed == Len(t) > 0 /\ t[1] \in {"+", "-"}
      sign == IF Len(t) > 0 /\ t[1] = "-" THEN 0 - 1 ELSE 1
      body == IF signed THEN Tail(t) ELSE t
  IN  CASE Len(t) = 0 -> Num(0)
        [] body = InfinityText -> Infinite(sign)
        [] AllDigits(body) -> Num(sign * DigitsToNat(body))
        [] OTHER -> NaN

\* isNaN of a number
IsNaN(x) == x.k = "number" /\ x.cls = "NaN"

\* ToBoolean
Truthy(x) ==
  CASE x.k \in {"undefined", "null"} -> FALSE
    [] x.k = "boolean" -> x.v
    [] x.k = "number" -> ~(x.cls = "NaN" \/ (x.cls = "finite" /\ x.v = 0))
    [] x.k = "string" -> Len(x.v) > 0
    [] OTHER -> TRUE

\* value.toString() of a string, number or boolean
ValueToString(x) ==
  CASE x.k = "string" -> x.v
    [] x.k = "number" -> NumberToString(x)
    [] x.k = "boolean" -> IF x.v THEN <<"t", "r", "u", "e">> ELSE <<"f", "a", "l", "s", "e">>
    [] OTHER -> <<>>

----------------------------------------------------------------------------
(* Property access *)

\* ToPropertyKey of a path segment: a number is its decimal text
ToPropertyKey(seg) == IF seg.k = "number" THEN NumberToString(seg) ELSE seg.v

\* an array index: the canonical decimal text of a natural number
IsArrayIndex(key) == AllDigits(key) /\ NatToText(DigitsToNat(key)) = key

LengthKey == <<"l", "e", "n", "g", "t", "h">>

HasKey(o, key) == \E i \in 1..Len(o.keys) : o.keys[i] = key
KeyPos(o, key) == CHOOSE i \in 1..Len(o.keys) : o.keys[i] = key

\* o[key] on a value that is neither null nor undefined
Get(o, seg) ==
  LET key == ToPropertyKey(seg)
  IN  CASE o.k = "object" ->
             IF HasKey(o, key) THEN o.vals[KeyPos(o, key)] ELSE Undefined
        [] o.k = "array" ->
             IF IsArrayIndex(key) /\ DigitsToNat(key) < Len(o.elems)
             THEN o.elems[DigitsToNat(key) + 1]
             ELSE IF key = LengthKey THEN Num(Len(o.elems)) ELSE Undefined
        [] o.k = "string" ->
             IF IsArrayIndex(key) /\ DigitsToNat(key) < Len(o.v)
             THEN Str(<<o.v[DigitsToNat(key) + 1]>>)
             ELSE IF key = LengthKey THEN Num(Len(o.v)) ELSE Undefined
        [] OTHER -> Undefined

\* { ...o }: the own enumerable properties of o copied into a fresh object
Spread(o) ==
  CASE o.k = "object" -> Obj(o.keys, o.vals)
    [] o.k = "array" -> Obj([i \in 1..Len(o.elems) |-> NatToText(i - 1)], o.elems)
    [] o.k = "string" -> Obj([i \in 1..Len(o.v) |-> NatToText(i - 1)],
                             [i \in 1..Len(o.v) |-> Str(<<o.v[i]>>)])
    [] OTHER -> EmptyObject

\* how many of the leading keys are array indices below n
IndexKeysBelow(keys, n) ==
  Cardinality({i \in 1..Len(keys) : IsArrayIndex(keys[i]) /\ DigitsToNat(keys[i]) < n})

InsertAt(s, pos, x) == SubSeq(s, 1, pos - 1) \o <<x>> \o SubSeq(s, pos, Len(s))

\* CreateDataProperty on an ordinary object: an existing key keeps its place;
\* a new array-index key goes among the index keys in ascending order, any
\* other new key goes last (OrdinaryOwnPropertyKeys order)
DefineProperty(o, key, val) ==
  IF HasKey(o, key)
  THEN Obj(o.keys, [o.vals EXCEPT ![KeyPos(o, key)] = val])
  ELSE LET pos == IF IsArrayIndex(key)
                  THEN IndexKeysBelow(o.keys, DigitsToNat(key)) + 1
                  ELSE Len(o.keys) + 1
       IN  Obj(InsertAt(o.keys, pos, key), InsertAt(o.vals, pos, val))

\* { ...o, [seg]: val }
SpreadWith(o, seg, val) == DefineProperty(Spread(o), ToPropertyKey(seg), val)

----------------------------------------------------------------------------
(* Value coercion *)

\* parseJsonValue(value, type): the typed value, or the thrown Error
ParseJsonValue(value, type) ==
  IF type = "boolean" THEN Bool(ToLowerCase(value) = <<"t", "r", "u", "e">>)
  ELSE IF type = "number"
       THEN LET num == StringToNumber(value)
            IN  IF IsNaN(num) THEN Thrown("Error", "Invalid number") ELSE num
  ELSE IF type = "null" THEN Null
  ELSE Str(value)

\* one step of the reduce in getValueByPath: current?.[key]
OptionalGet(current, key) ==
  IF current.k \in {"null", "undefined"} THEN Undefined ELSE Get(current, key)

----------------------------------------------------------------------------
(* The heap.  Objects and arrays are reference values: a heap is a sequence *)
(* of cells, a cell is an object or an array whose entries are slots, and a *)
(* slot is a primitive value or a reference to a cell.                      *)

Ref(a) == [k |-> "ref", a |-> a]
IsRef(x) == x.k = "ref"

\* the cell a reference denotes; a primitive stands for itself
Target(h, x) == IF IsRef(x) THEN h[x.a] ELSE x

\* a fresh cell
New(h, cell) == [heap |-> Append(h, cell), val |-> Ref(Len(h) + 1)]

\* the value v built on the heap h (what JSON.parse or a literal creates)
RECURSIVE Alloc(_, _)
RECURSIVE AllocAll(_, _)
Alloc(h, v) ==
  IF v.k = "object"
  THEN LET r == AllocAll(h, v.vals) IN New(r.heap, Obj(v.keys, r.vals))
  ELSE IF v.k = "array"
       THEN LET r == AllocAll(h, v.elems) IN New(r.heap, Arr(r.vals))
       ELSE [heap |-> h, val |-> v]
AllocAll(h, kids) ==
  IF Len(kids) = 0 THEN [heap |-> h, vals |-> <<>>]
  ELSE LET first == Alloc(h, kids[1])
           rest == AllocAll(first.heap, Tail(kids))
       IN  [heap |-> rest.heap, vals |-> <<first.val>> \o rest.vals]

\* the value a slot denotes
RECURSIVE Deref(_, _)
Deref(h, x) ==
  IF ~IsRef(x) THEN x
  ELSE LET c == h[x.a]
       IN  IF c.k = "object"
           THEN Obj(c.keys, [i \in 1..Len(c.vals) |-> Deref(h, c.vals[i])])
           ELSE Arr([i \in 1..Len(c.elems) |-> Deref(h, c.elems[i])])

----------------------------------------------------------------------------
(* The path helpers of the module *)

\* getValueByPath(obj, path) on the heap: the slot reached
RECURSIVE GetByPath(_, _, _)
GetByPath(h, obj, path) ==
  IF Len(path) = 0 THEN obj
  ELSE GetByPath(h, OptionalGet(Target(h, obj), path[1]), Tail(path))

\* getValueByPath(obj, path)
GetValueByPath(obj, path) ==
  LET a == Alloc(<<>>, obj) IN Deref(a.heap, GetByPath(a.heap, a.val, path))

\* the TypeError of obj[key] when obj is null or undefined
CannotRead(obj) ==
  Thrown("TypeError", IF obj.k = "null" THEN "Cannot read properties of null"
                      ELSE "Cannot read properties of undefined")

\* setValueByPath(obj, path, value) on the heap: the heap after the call and
\* the slot returned, or the error thrown
RECURSIVE SetByPath(_, _, _, _)

\* a set that binds the value at the first key and ignores the rest of the path
SetByPathFirstKeyOnly(h, obj, path, value) ==
  IF Len(path) = 0 THEN [heap |-> h, val |-> value]
  ELSE New(h, SpreadWith(Target(h, obj), path[1], value))

\* obj[key] = val on a cell
Assigned(cell, seg, val) ==
  LET key == ToPropertyKey(seg)
  IN  IF cell.k = "array" /\ IsArrayIndex(key) /\ DigitsToNat(key) < Len(cell.elems)
      THEN Arr([cell.elems EXCEPT ![DigitsToNat(key) + 1] = val])
      ELSE DefineProperty(Spread(cell), key, val)

\* a set that assigns into the containers of its argument instead of copying them
SetByPathInPlace(h, obj, path, value) ==
  IF Len(path) = 0 THEN [heap |-> h, val |-> value]
  ELSE IF ~IsRef(obj) THEN New(h, SpreadWith(obj, path[1], value))
  ELSE LET key == path[1]
           remaining == Tail(path)
           child == Get(h[obj.a], key)
           arg == IF Truthy(child) THEN [heap |-> h, val |-> child] ELSE New(h, EmptyObject)
           inner == IF Len(remaining) = 0 THEN [heap |-> h, val |-> value]
                    ELSE SetByPath(arg.heap, arg.val, remaining, value)
       IN  IF IsThrown(inner.val) THEN inner
           ELSE [heap |-> [inner.heap EXCEPT ![obj.a] = Assigned(inner.heap[obj.a], key, inner.val)],
                 val |-> obj]

SetByPath(h, obj, path, value) ==
  IF Len(path) = 0 THEN [heap |-> h, val |-> value]
  ELSE LET key == path[1]
           remaining == Tail(path)
       IN  IF Len(remaining) = 0
           THEN New(h, SpreadWith(Target(h, obj), key, value))
           ELSE IF obj.k \in {"null", "undefined"}
                THEN [heap |-> h, val |-> CannotRead(obj)]
                ELSE LET child == Get(Target(h, obj), key)
                         arg == IF Truthy(child) THEN [heap |-> h, val |-> child]
                                ELSE New(h, EmptyObject)
                         inner == SetByPath(arg.heap, arg.val, remaining, value)
                     IN  IF IsThrown(inner.val) THEN inner
                         ELSE New(inner.heap, SpreadWith(Target(h, obj), key, inner.val))

\* setValueByPath(obj, path, value): the value returned, or the error thrown
SetValueByPath(obj, path, value) ==
  LET a == Alloc(<<>>, obj)
      b == Alloc(a.heap, value)
      r == SetByPath(b.heap, a.val, path, b.val)
  IN  IF IsThrown(r.val) THEN r.val ELSE Deref(r.heap, r.val)

----------------------------------------------------------------------------
(* JSON text.  A text is either malformed or the two-space rendering of a   *)
(* JSON tree; the tree is what JSON.parse of the text returns.              *)

MalformedText == [k |-> "text", syntax |-> "malformed"]
JsonText(tree, indent) == [k |-> "text", syntax |-> "json", indent |-> indent, tree |-> tree]

\* SerializeJSONProperty: what JSON.stringify writes for a value.  A number
\* that is not finite is written null; a property whose value is undefined is
\* left out of an object and written null in an array.
RECURSIVE ToJSON(_)
ToJSON(x) ==
  CASE x.k = "number" -> IF x.cls = "finite" THEN x ELSE Null
    [] x.k = "array" ->
         Arr([i \in 1..Len(x.elems) |->
                IF x.elems[i].k = "undefined" THEN Null ELSE ToJSON(x.elems[i])])
    [] x.k = "object" ->
         LET keep == SelectSeq([i \in 1..Len(x.keys) |-> i],
                               LAMBDA i : x.vals[i].k # "undefined")
         IN  Obj([j \in 1..Len(keep) |-> x.keys[keep[j]]],
                 [j \in 1..Len(keep) |-> ToJSON(x.vals[keep[j]])])
    [] OTHER -> x

\* JSON.stringify(value, null, indent)
JSONStringify(value, indent) ==
  IF value.k = "undefined" THEN Undefined ELSE JsonText(ToJSON(value), indent)

\* JSON.parse(text): the tree, or the SyntaxError thrown
JSONParse(text) ==
  IF text.k = "text" /\ text.syntax = "json" THEN text.tree
  ELSE Thrown("SyntaxError", "Unexpected token")

----------------------------------------------------------------------------
(* The inputs the environment supplies *)

tCustomer == <<"c", "u", "s", "t", "o", "m", "e", "r">>
tName == <<"n", "a", "m", "e">>
tTags == <<"t", "a", "g", "s">>
tCount == <<"c", "o", "u", "n", "t">>
tMeta == <<"m", "e", "t", "a">>
tAda == <<"A", "d", "a">>

\* {"customer": {"name": "Ada", "tags": ["x", "y"]}, "count": 0}
CustomerDocument ==
  Obj(<<tCustomer, tCount>>,
      <<Obj(<<tName, tTags>>, <<Str(tAda), Arr(<<Str(<<"x">>), Str(<<"y">>)>>)>>), Num(0)>>)

\* the texts getJson() may return
DocumentTexts ==
  { JsonText(CustomerDocument, 2),
    JsonText(Arr(<<Num(1), Obj(<<tName>>, <<Null>>)>>), 2),
    JsonText(Null, 2),
    MalformedText }

\* a row of NodeData["text"]
Row(key, value, type) == [key |-> key, value |-> value, type |-> type]

\* a selected node; hasPath is false when the optional path field is absent
Node(hasPath, path, text) == [sel |-> TRUE, hasPath |-> hasPath, path |-> path, text |-> text]
\* selectedNode is null
NoNode == [sel |-> FALSE, hasPath |-> FALSE, path |-> <<>>, text |-> <<>>]

\* the selected-node descriptions the graph layer may supply
Nodes ==
  { \* the root object: its first row is the container-typed field "customer"
    Node(TRUE, <<>>, <<Row(Str(tCustomer), Undefined, "object"),
                       Row(Str(tCount), Num(0), "number")>>),
    \* a node without the optional path
    Node(FALSE, <<>>, <<Row(Undefined, Str(tAda), "string")>>),
    Node(TRUE, <<Str(tCustomer)>>, <<Row(Str(tName), Str(tAda), "string"),
                                     Row(Str(tTags), Undefined, "array")>>),
    Node(TRUE, <<Str(tCustomer), Str(tName)>>, <<Row(Undefined, Str(tAda), "string")>>),
    Node(TRUE, <<Str(tCustomer), Str(tTags), Num(0)>>, <<Row(Undefined, Str(<<"x">>), "string")>>),
    Node(TRUE, <<Str(tCount)>>, <<Row(Undefined, Num(0), "number")>>),
    \* a node with no rows
    Node(TRUE, <<Str(tCustomer), Str(tTags)>>, <<>>),
    \* a node whose first row is container-typed
    Node(TRUE, <<Str(tMeta)>>, <<Row(Str(tTags), Undefined, "array")>>) }

\* what the user may type into the Value input
TypedTexts ==
  { <<>>, <<" ">>, <<"4", "2">>, <<"a", "b", "c">>, <<"T", "R", "U", "E">>, InfinityText }

\* the type buttons rendered in the edit form
TypeButtons == {"string", "number", "boolean", "null"}

----------------------------------------------------------------------------
(* The component *)

\* what the last handler did: its name, the toast it showed and the payloads
\* of its setContents calls, in order
Event(name, toastKind, message, writes) ==
  [name |-> name, toast |-> toastKind, message |-> message, setContents |-> writes]
Quiet(name) == Event(name, "none", "", <<>>)

NoCall == [fn |-> "none"]

\* x?.toString() || ""
ToStringOrEmpty(x) ==
  IF x.k \in {"null", "undefined"} THEN <<>> ELSE ValueToString(x)

\* the draft after the effect of [nodeData, opened] has run for node
SeededDraft(node, draft) ==
  IF node.sel /\ Len(node.text) > 0
  THEN LET firstRow == node.text[1]
       IN  [key |-> ToStringOrEmpty(firstRow.key),
            value |-> ToStringOrEmpty(firstRow.value),
            type |-> IF firstRow.type = "" THEN "string" ELSE firstRow.type]
  ELSE draft

Draft == [key |-> editKey, value |-> editValue, type |-> editType]

\* the effect runs and sets the three draft states
RunEffect(node) ==
  LET d == SeededDraft(node, Draft)
  IN  /\ editKey' = d.key
      /\ editValue' = d.value
      /\ editType' = d.type

\* const isRootNode = !nodeData.path || nodeData.path.length === 0
IsRootNode(node) == ~node.hasPath \/ Len(node.path) = 0

\* the component renders the Modal (nodeData is not null) and the Modal is open
ModalShown == nodeData.sel /\ opened

\* an edit form rendered on isEditing alone
EditFormShownWhenEditing == ModalShown /\ isEditing

\* {isEditing && !isRootNode ? <edit form> : <content view>}
EditFormShown == ModalShown /\ isEditing /\ ~IsRootNode(nodeData)

\* the content view, with its CloseButton
ContentViewShown == ModalShown /\ ~(isEditing /\ ~IsRootNode(nodeData))

\* {!isRootNode && <Button>Edit Node</Button>}
EditButtonShown == ContentViewShown /\ ~IsRootNode(nodeData)

Init ==
  /\ nodeData = NoNode
  /\ opened = FALSE
  /\ isEditing = FALSE
  /\ editValue = <<>>
  /\ editKey = <<>>
  /\ editType = "string"
  /\ jsonStr \in DocumentTexts
  /\ event = Quiet("mount")
  /\ call = NoCall

\* the graph store sets selectedNode; the component re-renders and the effect runs
SelectNode(n) ==
  /\ nodeData' = n
  /\ RunEffect(n)
  /\ event' = Quiet("select")
  /\ UNCHANGED <<opened, isEditing, jsonStr, call>>

\* the parent sets opened to true
OpenModal ==
  /\ ~opened
  /\ opened' = TRUE
  /\ RunEffect(nodeData)
  /\ event' = Quiet("open")
  /\ UNCHANGED <<nodeData, isEditing, jsonStr, call>>

\* onClose(): the parent sets opened to false, the effect runs for the change
OnClose ==
  /\ opened' = FALSE
  /\ IF opened THEN RunEffect(nodeData) ELSE UNCHANGED <<editKey, editValue, editType>>

\* the Modal's own onClose (escape, click outside) or the content view's CloseButton
DismissModal ==
  /\ ModalShown
  /\ OnClose
  /\ event' = Quiet("dismiss")
  /\ UNCHANGED <<nodeData, isEditing, jsonStr, call>>

\* setIsEditing(b)
SetIsEditing(b, name) ==
  /\ isEditing' = b
  /\ event' = Quiet(name)
  /\ UNCHANGED <<nodeData, opened, editValue, editKey, editType, jsonStr, call>>

\* setEditValue(text)
SetEditValue(text) ==
  /\ editValue' = text
  /\ event' = Quiet("change")
  /\ UNCHANGED <<nodeData, opened, isEditing, editKey, editType, jsonStr, call>>

\* setEditType(type)
SetEditType(type) ==
  /\ editType' = type
  /\ event' = Quiet("type")
  /\ UNCHANGED <<nodeData, opened, isEditing, editKey, editValue, jsonStr, call>>

\* the Edit Node button: onClick={() => setIsEditing(true)}
ClickEdit == EditButtonShown /\ SetIsEditing(TRUE, "edit")

\* the Cancel button or the edit form's CloseButton: onClick={() => setIsEditing(false)}
ClickCancel == EditFormShown /\ SetIsEditing(FALSE, "cancel")

\* typing into the Value input: onChange={e => setEditValue(e.currentTarget.value)}
ChangeValue(text) == EditFormShown /\ SetEditValue(text)

\* a type button: onClick={() => setEditType(type)}
ClickType(type) == EditFormShown /\ SetEditType(type)

\* a catch block that also leaves edit mode and drops the typed value
SaveFailedLeavingEdit(error) ==
  /\ event' = Event("handleSave", "error", error.message, <<>>)
  /\ isEditing' = FALSE
  /\ editValue' = <<>>
  /\ UNCHANGED <<nodeData, opened, editKey, editType, jsonStr, call>>

\* the catch block of handleSave: toast.error(error.message)
SaveFailed(error) ==
  /\ event' = Event("handleSave", "error", error.message, <<>>)
  /\ UNCHANGED <<nodeData, opened, isEditing, editValue, editKey, editType, jsonStr, call>>

\* handleSave()
HandleSave ==
  IF ~(nodeData.sel /\ nodeData.hasPath)
  THEN /\ event' = Event("handleSave", "error", "Cannot edit root node", <<>>)
       /\ UNCHANGED <<nodeData, opened, isEditing, editValue, editKey, editType, jsonStr, call>>
  ELSE LET json == JSONParse(jsonStr)
           newValue == ParseJsonValue(editValue, editType)
           updatedJson == SetValueByPath(json, nodeData.path, newValue)
           newContents == JSONStringify(updatedJson, 2)
       IN  IF IsThrown(json) THEN SaveFailed(json)
           ELSE IF IsThrown(newValue) THEN SaveFailed(newValue)
           ELSE IF IsThrown(updatedJson) THEN SaveFailed(updatedJson)
           ELSE /\ event' = Event("handleSave", "success", "Node updated successfully!",
                                  <<[contents |-> newContents, hasChanges |-> TRUE]>>)
                /\ isEditing' = FALSE
                /\ OnClose
                /\ UNCHANGED <<nodeData, jsonStr, call>>

\* the Save button
ClickSave == EditFormShown /\ HandleSave

\* the json store changes (the editor, or a previous save reaching it)
StoreUpdate(text) ==
  /\ jsonStr' = text
  /\ text # jsonStr
  /\ event' = Quiet("store")
  /\ UNCHANGED <<nodeData, opened, isEditing, editValue, editKey, editType, call>>

Next ==
  \/ \E n \in Nodes : SelectNode(n)
  \/ OpenModal
  \/ DismissModal
  \/ ClickEdit
  \/ ClickCancel
  \/ \E text \in TypedTexts : ChangeValue(text)
  \/ \E type \in TypeButtons : ClickType(type)
  \/ ClickSave
  \/ \E text \in DocumentTexts : StoreUpdate(text)

Spec == Init /\ [][Next]_vars

----------------------------------------------------------------------------
(* The handlers called directly, whatever the component renders: handleSave *)
(* and the state setters applied to every selected node, draft and text.    *)

CallSetIsEditing == \E b \in BOOLEAN : b # isEditing /\ SetIsEditing(b, "setIsEditing")
CallSetEditValue == \E text \in TypedTexts : SetEditValue(text)
CallSetEditType == \E type \in TypeButtons : SetEditType(type)
CallHandleSave == HandleSave
CallOnClose ==
  /\ opened
  /\ OnClose
  /\ event' = Quiet("dismiss")
  /\ UNCHANGED <<nodeData, isEditing, jsonStr, call>>

NextHandlers ==
  \/ \E n \in Nodes : SelectNode(n)
  \/ OpenModal
  \/ CallOnClose
  \/ CallSetIsEditing
  \/ CallSetEditValue
  \/ CallSetEditType
  \/ CallHandleSave
  \/ \E text \in DocumentTexts : StoreUpdate(text)

SpecHandlers == Init /\ [][NextHandlers]_vars

----------------------------------------------------------------------------
(* The helpers applied to inputs drawn from bounded sets *)

\* the longest array, and the most keys of an object, in a generated document
MaxWidth == 2

kA == <<"a">>
kB == <<"b">>
Keys == {kA, kB}

\* the primitive values of a document: the four falsy ones and two truthy ones
Leaves == {Num(0), Str(<<>>), Bool(FALSE), Null, Num(5), Str(<<"x">>)}

Tuples(S, w) == UNION {[1..n -> S] : n \in 0..w}
KeySeqs(w) ==
  {ks \in Tuples(Keys, w) : \A i, j \in 1..Len(ks) : ks[i] = ks[j] => i = j}
\* the arrays of at most w elements and the objects of at most w keys over S
Containers(S, w) ==
  {Arr(es) : es \in Tuples(S, w)}
    \cup UNION {{Obj(ks, vs) : vs \in [1..Len(ks) -> S]} : ks \in KeySeqs(w)}

\* what a container of a nested document may hold: a primitive or a
\* container of zeros
Inner == {Null, Str(<<"x">>)} \cup Containers({Num(0)}, MaxWidth)

\* the documents: primitives, containers of primitives, containers of
\* containers, and the customer document (three levels)
Documents ==
  Leaves \cup Containers(Leaves, MaxWidth) \cup Containers(Inner, MaxWidth)
    \cup {CustomerDocument}

\* the values written
NewValues == {Num(0), Str(<<>>), Bool(FALSE), Null, Str(<<"x">>), EmptyObject, Arr(<<Num(0)>>)}

\* the paths present in a document: the route to each of its nodes
RECURSIVE PathsOf(_)
PathsOf(d) ==
  {<<>>} \cup
  CASE d.k = "object" ->
         UNION {{<<Str(d.keys[i])>> \o q : q \in PathsOf(d.vals[i])} : i \in 1..Len(d.keys)}
    [] d.k = "array" ->
         UNION {{<<Num(i - 1)>> \o q : q \in PathsOf(d.elems[i])} : i \in 1..Len(d.elems)}
    [] OTHER -> {}

\* a path that is in no generated document
AbsentPath == <<Str(<<"z">>), Str(kA)>>

\* the texts and the types parseJsonValue is applied to
CoercionTexts ==
  TypedTexts \cup { <<"-", "7">>, <<" ", "4", "2", " ">>, <<"0">>, <<"t", "r", "u", "e">>,
                    <<"T", "r", "u", "e">>, <<"f", "a", "l", "s", "e">>, <<"y", "e", "s">>,
                    <<"-">> \o InfinityText, NaNText, <<"1", "2", "a">> }
CoercionTypes == TypeButtons \cup {"array", "object"}

InitHelpers ==
  /\ nodeData = NoNode
  /\ opened = FALSE
  /\ isEditing = FALSE
  /\ editValue = <<>>
  /\ editKey = <<>>
  /\ editType = "string"
  /\ jsonStr = MalformedText
  /\ event = Quiet("mount")
  /\ \/ \E d \in Documents : \E p \in PathsOf(d) \cup {AbsentPath} : \E v \in NewValues :
          call = [fn |-> "setValueByPath", pc |-> "ready", obj |-> d, path |-> p, value |-> v]
     \/ \E text \in CoercionTexts : \E type \in CoercionTypes :
          call = [fn |-> "parseJsonValue", pc |-> "ready", value |-> text, type |-> type]

\* setValueByPath(obj, path, value) is applied: the heap holding the two
\* arguments before the call, the heap after it and the slot returned
ApplySetValueByPath ==
  /\ call.fn = "setValueByPath" /\ call.pc = "ready"
  /\ LET a == Alloc(<<>>, call.obj)
         b == Alloc(a.heap, call.value)
         r == SetByPath(b.heap, a.val, call.path, b.val)
     IN  call' = [fn |-> "setValueByPath", pc |-> "done", obj |-> call.obj,
                  path |-> call.path, value |-> call.value,
                  before |-> b.heap, objRef |-> a.val, valueRef |-> b.val,
                  after |-> r.heap, result |-> r.val]
  /\ UNCHANGED uiVars

\* parseJsonValue(value, type) is applied
ApplyParseJsonValue ==
  /\ call.fn = "parseJsonValue" /\ call.pc = "ready"
  /\ call' = [fn |-> "parseJsonValue", pc |-> "done", value |-> call.value,
              type |-> call.type, result |-> ParseJsonValue(call.value, call.type)]
  /\ UNCHANGED uiVars

NextHelpers == ApplySetValueByPath \/ ApplyParseJsonValue

SpecHelpers == InitHelpers /\ [][NextHelpers]_vars

----------------------------------------------------------------------------
(* Properties *)

IsSaveStep == event'.name = "handleSave"

DefaultDraft == [key |-> <<>>, value |-> <<>>, type |-> "string"]

IsPrefix(q, p) == Len(q) <= Len(p) /\ SubSeq(p, 1, Len(q)) = q
OffSpine(q, p) == ~IsPrefix(q, p) /\ ~IsPrefix(p, q)

SetDone == call.fn = "setValueByPath" /\ call.pc = "done"
SetDonePresent == SetDone /\ call.path \in PathsOf(call.obj)
ParseDone == call.fn = "parseJsonValue" /\ call.pc = "done"

\* C1: handleSave called while the selected node's path is [] always fails,
\* for every document text and every draft: an error toast is shown and
\* nothing is handed to setContents.
C1_RootSaveRejected ==
  [][(IsSaveStep /\ nodeData.sel /\ nodeData.hasPath /\ Len(nodeData.path) = 0)
       => /\ event'.toast = "error"
          /\ event'.setContents = <<>>]_vars

\* the save fails: the text does not parse, the coercion throws or the replace throws
SaveThrows ==
  \/ IsThrown(JSONParse(jsonStr))
  \/ IsThrown(ParseJsonValue(editValue, editType))
  \/ IsThrown(SetValueByPath(JSONParse(jsonStr), nodeData.path, ParseJsonValue(editValue, editType)))

\* C2: a save that fails leaves the session editing with the modal open and
\* the draft as it was, shows an error toast and calls setContents zero
\* times; a save that succeeds calls setContents exactly once, with the text
\* of the whole updated document.
C2_FailedSaveKeepsEditing ==
  [][IsSaveStep =>
       /\ SaveThrows =>
            /\ isEditing /\ isEditing' /\ opened /\ opened'
            /\ editValue' = editValue /\ editType' = editType /\ editKey' = editKey
            /\ event'.toast = "error"
            /\ event'.setContents = <<>>
       /\ ~SaveThrows =>
            /\ event'.toast = "success"
            /\ Len(event'.setContents) = 1
            /\ event'.setContents[1].contents =
                 JSONStringify(SetValueByPath(JSONParse(jsonStr), nodeData.path,
                                              ParseJsonValue(editValue, editType)), 2)
            /\ event'.setContents[1].contents.syntax = "json"]_vars

\* a failed save with a draft the user typed, the session still editing
C2_Witness ==
  /\ event.name = "handleSave" /\ event.toast = "error" /\ event.message = "Invalid number"
  /\ isEditing /\ opened /\ editType = "number" /\ editValue = <<"a", "b", "c">>

\* C3: reading path p back from setValueByPath(D, p, v) yields v, for every
\* path p present in D.
C3_RoundTrip ==
  SetDonePresent =>
    /\ ~IsThrown(call.result)
    /\ Deref(call.after, GetByPath(call.after, call.result, call.path)) = call.value
    /\ GetValueByPath(Deref(call.after, call.result), call.path) = call.value

\* a replace through an array index at a node that held a falsy value
C3_Witness ==
  /\ SetDonePresent
  /\ Len(call.path) = 2 /\ call.path[1].k = "number"
  /\ ~Truthy(GetValueByPath(call.obj, call.path))
  /\ GetValueByPath(call.obj, call.path) # call.value

\* the container of D at q and the one of the result have the same kind, the
\* same keys in the same order and the same length
SameContainer(a, b) ==
  /\ a.k = b.k
  /\ a.k = "object" => a.keys = b.keys
  /\ a.k = "array" => Len(a.elems) = Len(b.elems)

\* C4: for a non-empty path p present in D, the result holds at every level
\* along p a container of the same kind as D does there, with the same keys
\* in the same order (an array stays an array of the same length), and the
\* value at p.
C4_SpineContainersKept ==
  (SetDonePresent /\ Len(call.path) > 0) =>
    /\ ~IsThrown(call.result)
    /\ \A n \in 0..(Len(call.path) - 1) :
         SameContainer(GetValueByPath(call.obj, SubSeq(call.path, 1, n)),
                       GetValueByPath(Deref(call.after, call.result), SubSeq(call.path, 1, n)))

\* C5: setValueByPath leaves its argument as it was (every cell that existed
\* before the call is unchanged, so D reads the same after as before), and
\* every node of D off the root-to-p spine is in the result the very same
\* slot: the same primitive or the same reference.
C5_InputAndOffSpineUnchanged ==
  SetDonePresent =>
    /\ Len(call.after) >= Len(call.before)
    /\ \A a \in 1..Len(call.before) : call.after[a] = call.before[a]
    /\ Deref(call.after, call.objRef) = call.obj
    /\ \A q \in PathsOf(call.obj) :
         OffSpine(q, call.path) =>
           /\ GetByPath(call.after, call.result, q) = GetByPath(call.before, call.objRef, q)
           /\ GetValueByPath(Deref(call.after, call.result), q) = GetValueByPath(call.obj, q)

\* a replace two levels deep beside a sibling that is itself a container
C5_Witness ==
  /\ SetDonePresent
  /\ Len(call.path) = 2
  /\ \E q \in PathsOf(call.obj) :
       /\ OffSpine(q, call.path)
       /\ IsRef(GetByPath(call.before, call.objRef, q))
       /\ GetByPath(call.after, call.result, q) = GetByPath(call.before, call.objRef, q)

\* the text is a finite numeric literal: an optionally signed run of decimal
\* digits, white space around it allowed
IsFiniteLiteral(text) ==
  LET t == TrimEnd(TrimStart(text))
      body == IF Len(t) > 0 /\ t[1] \in {"+", "-"} THEN Tail(t) ELSE t
  IN  AllDigits(body)

\* C6: parseJsonValue(text, "number") throws "Invalid number" for every text
\* that is not a finite numeric literal (the empty text, white space,
\* Infinity) and returns a finite number for every text that is one.
C6_NonNumbersRejected ==
  (ParseDone /\ call.type = "number") =>
    IF IsFiniteLiteral(call.value)
    THEN call.result.k = "number" /\ call.result.cls = "finite"
    ELSE IsThrown(call.result) /\ call.result.message = "Invalid number"

\* C7: after every selection, open and close the draft is the one seeded from
\* the first row of the selected node, or the default draft when the node has
\* no rows.
C7_DraftMatchesSelectedNode ==
  [][event'.name \in {"select", "open", "dismiss"} =>
       Draft' = SeededDraft(nodeData', DefaultDraft)]_vars

\* C8: Cancel returns the session to viewing without a write, and the draft
\* shown when editing of the same node begins again is the one seeded from
\* the node's first row.
C8_CancelDiscardsDraft ==
  [][/\ event'.name = "cancel" => (~isEditing' /\ event'.setContents = <<>>)
     /\ (event'.name = "edit" /\ Len(nodeData.text) > 0) =>
          Draft' = SeededDraft(nodeData', DefaultDraft)]_vars

\* C9: the edit form's handlers (typing, type buttons, Cancel, Save) run only
\* while the selected node has a non-empty path, and no save replaces the
\* root: the document written is the object built around the path.
C9_NoEditAtRoot ==
  [][/\ event'.name \in {"handleSave", "change", "type", "cancel", "edit"} =>
          (nodeData.sel /\ nodeData.hasPath /\ Len(nodeData.path) > 0)
     /\ (IsSaveStep /\ event'.setContents # <<>>) =>
          /\ event'.setContents[1].contents.tree.k = "object"
          /\ event'.setContents[1].contents.tree # ParseJsonValue(editValue, editType)]_vars

\* the root is selected in an open modal with isEditing left true by an
\* earlier node
C9_Witness ==
  /\ ModalShown /\ isEditing
  /\ nodeData.hasPath /\ Len(nodeData.path) = 0
  /\ ~EditFormShown /\ ~EditButtonShown /\ ContentViewShown

\* C10: the draft's type is always one of string, number, boolean, null.
C10_TypeIsScalarKind == editType \in TypeButtons

====
